---------------------------- MODULE Spec2Model ----------------------------
(***************************************************************************)
(* Model of the income-report splitter: identifier extraction from page    *)
(* text (src/src/identifier.py), the page-grouping scan and the document   *)
(* splitter (src/src/pdf_processor.py), and the orchestrator with its      *)
(* delivery loop (src/main.py, src/src/database.py, src/src/email_sender). *)
(*                                                                         *)
(* Strings are sequences of one-character strings, so that formatting,     *)
(* pattern matching and digit stripping are computed character by          *)
(* character, as the code computes them.                                   *)
(***************************************************************************)
EXTENDS Integers, Sequences, FiniteSets, TLC

VARIABLES
    \* ExtractorIdentifier.extract applied to one page text
    text, ident, xpc,
    \* PDFProcessor._group_pages: the scan over one document
    doc, i, groups, last_name, last_id, gpc,
    \* main: the command line, the directories and the position in main
    args, inputDir, outputDir, sentSuccess, sentFailure, mpc, exc,
    \* split_pdfs: its locals, the calls of process it made, its return value
    pdfs, pidx, arquivos_gerados, processed, splitReturn,
    \* enviar_emails: its argument, its locals, the lookups it made
    sendArg, files, fidx, sent_count, errors, not_found, lookups,
    \* PDFProcessor.process after the scan: the files written into the output
    \* directory, in the order of writing, and the returned ProcessingResult
    written, result,
    \* _fmt_cpf / _fmt_cnpj applied to the digits of one match, and what
    \* nome_arquivo and enviar_emails make of the formatted identifier
    digits, formatted, stem, stem_digits, fpc

xvars == <<text, ident, xpc>>
gvars == <<doc, i, groups, last_name, last_id, gpc>>
dirvars == <<inputDir, outputDir, sentSuccess, sentFailure>>
splitvars == <<pdfs, pidx, arquivos_gerados, processed, splitReturn>>
sendvars == <<sendArg, files, fidx, sent_count, errors, not_found, lookups>>
mvars == <<args, dirvars, mpc, exc, splitvars, sendvars>>
pvars == <<written, result>>
fvars == <<digits, formatted, stem, stem_digits, fpc>>
vars == <<xvars, gvars, mvars, pvars, fvars>>

----------------------------------------------------------------------------
(* Bounds *)

\* number of text pieces concatenated into one page text
MaxPieces == 3
\* number of pages of one document
MaxPages == 3
\* number of documents in the input directory
MaxDocs == 2
\* number of files in the output directory when the program starts
MaxFiles == 2
\* number of pages of the document without any identifier
MaxLeading == 11

----------------------------------------------------------------------------
(* Optional values: << >> is None, <<x>> is x.                              *)
(* In the definitions below, x \in {e} names the value of e, computed once. *)

None == << >>
Some(x) == <<x>>

----------------------------------------------------------------------------
(* Characters *)

Digits == {"0", "1", "2", "3", "4", "5", "6", "7", "8", "9"}

Letters == {"a", "b", "c", "d", "e", "f", "g", "h", "i", "j", "k", "l", "m",
            "n", "o", "p", "q", "r", "s", "t", "u", "v", "w", "x", "y", "z"}

\* \d of the re module
IsDigit(c) == c \in Digits

\* \w of the re module (what \b looks at)
IsWord(c) == c \in Digits \cup Letters \cup {"_"}

\* \s of the re module
Whitespace == {" ", "\n"}

\* the n-th digit character
DigitChar(n) == CHOOSE c \in Digits :
                   c = <<"0", "1", "2", "3", "4", "5", "6", "7", "8", "9">>[n + 1]

\* str(n) of a non-negative integer
RECURSIVE DecStr(_)
DecStr(n) == IF n < 10 THEN <<DigitChar(n)>>
             ELSE DecStr(n \div 10) \o <<DigitChar(n % 10)>>

\* re.sub(r"[^\d]", "", s) and re.sub(r"\D", "", s)
StripNonDigits(s) == SelectSeq(s, IsDigit)

----------------------------------------------------------------------------
(* The two patterns *)

D(n) == [kind |-> "d", n |-> n, set |-> {}]
Opt(S) == [kind |-> "opt", n |-> 0, set |-> S]

\* \d{2}[.\s]?\d{3}[.\s]?\d{3}[/\s]?\d{4}[-\s]?\d{2} between two \b
CNPJ_RE == << D(2), Opt({"."} \cup Whitespace), D(3), Opt({"."} \cup Whitespace),
              D(3), Opt({"/"} \cup Whitespace), D(4), Opt({"-"} \cup Whitespace),
              D(2) >>

\* \d{3}[.\s]?\d{3}[.\s]?\d{3}[-\s]?\d{2} between two \b
CPF_RE == << D(3), Opt({"."} \cup Whitespace), D(3), Opt({"."} \cup Whitespace),
             D(3), Opt({"-"} \cup Whitespace), D(2) >>

\* \b between t[p-1] and t[p]
WordBoundary(t, p) ==
    LET before == p > 1 /\ p - 1 <= Len(t) /\ IsWord(t[p - 1])
        after == p >= 1 /\ p <= Len(t) /\ IsWord(t[p])
    IN before # after

\* Match the elements k.. of pat at position p of t: the position after the
\* match, or 0.  An optional separator is taken when present: the element
\* after it is a digit, so giving it back can never help.
RECURSIVE MatchFrom(_, _, _, _)
MatchFrom(t, p, pat, k) ==
    IF k > Len(pat) THEN (IF WordBoundary(t, p) THEN p ELSE 0)
    ELSE LET e == pat[k] IN
         IF e.kind = "d"
         THEN IF p + e.n - 1 <= Len(t) /\ \A j \in p .. (p + e.n - 1) : IsDigit(t[j])
              THEN MatchFrom(t, p + e.n, pat, k + 1)
              ELSE 0
         ELSE IF p <= Len(t) /\ t[p] \in e.set
              THEN MatchFrom(t, p + 1, pat, k + 1)
              ELSE MatchFrom(t, p, pat, k + 1)

\* a match of pat starting exactly at p: the position after it, or 0
MatchAt(t, p, pat) == IF WordBoundary(t, p) THEN MatchFrom(t, p, pat, 1) ELSE 0

\* pattern.finditer(t): the matched substrings (group 1), left to right,
\* non-overlapping
RECURSIVE FindIter(_, _, _)
FindIter(t, p, pat) ==
    IF p > Len(t) THEN << >>
    ELSE LET e == MatchAt(t, p, pat) IN
         IF e # 0 THEN <<SubSeq(t, p, e - 1)>> \o FindIter(t, e, pat)
         ELSE FindIter(t, p + 1, pat)

\* pattern.search(t): the first match as a one-element sequence, or << >>
RECURSIVE Search(_, _, _)
Search(t, p, pat) ==
    IF p > Len(t) THEN << >>
    ELSE LET e == MatchAt(t, p, pat) IN
         IF e # 0 THEN <<SubSeq(t, p, e - 1)>>
         ELSE Search(t, p + 1, pat)

----------------------------------------------------------------------------
(* Identifier *)

\* Identifier(valor, tipo)
Identifier(valor, tipo) == [valor |-> valor, tipo |-> tipo]

\* Identifier.__bool__
Truthy(id) == id.valor # << >>

\* the characters re.sub(r'[\\/*?:"<>|]', "_", ...) replaces
InvalidChars == {"\\", "/", "*", "?", ":", "\"", "<", ">", "|"}

\* Identifier.nome_arquivo, on the value
NomeArquivo(valor) ==
    [k \in 1 .. Len(valor) |-> IF valor[k] \in InvalidChars THEN "_" ELSE valor[k]]

\* ExtractorIdentifier._fmt_cnpj
FmtCnpj(raw) ==
    SubSeq(raw, 1, 2) \o <<".">> \o SubSeq(raw, 3, 5) \o <<".">> \o SubSeq(raw, 6, 8)
        \o <<"/">> \o SubSeq(raw, 9, 12) \o <<"-">> \o SubSeq(raw, 13, Len(raw))

\* the last group taken from raw[10:], one digit short
FmtCpf_ShortTail(raw) ==
    SubSeq(raw, 1, 3) \o <<".">> \o SubSeq(raw, 4, 6) \o <<".">> \o SubSeq(raw, 7, 9)
        \o <<"-">> \o SubSeq(raw, 11, Len(raw))

\* ExtractorIdentifier._fmt_cpf
FmtCpf(raw) ==
    SubSeq(raw, 1, 3) \o <<".">> \o SubSeq(raw, 4, 6) \o <<".">> \o SubSeq(raw, 7, 9)
        \o <<"-">> \o SubSeq(raw, 10, Len(raw))

\* the loop body of ExtractorIdentifier._cnpjs, over the matches ms
RECURSIVE CnpjsOf(_)
CnpjsOf(ms) ==
    IF ms = << >> THEN << >>
    ELSE LET raw == StripNonDigits(Head(ms)) IN
         (IF Len(raw) = 14 THEN <<FmtCnpj(raw)>> ELSE << >>) \o CnpjsOf(Tail(ms))

\* ExtractorIdentifier._cnpjs
Cnpjs(t) == CnpjsOf(FindIter(t, 1, CNPJ_RE))

\* ExtractorIdentifier._cpf: a one-element sequence, or << >> for None
Cpf(t) ==
    LET m == Search(t, 1, CPF_RE) IN
    IF m # << >> /\ Len(StripNonDigits(m[1])) = 11
    THEN <<FmtCpf(StripNonDigits(m[1]))>>
    ELSE << >>

\* extract with the fallback tried before the individual rule
ExtractId_FallbackFirst(t) ==
    LET cnpjs == Cnpjs(t)
        cpf == Cpf(t)
    IN IF Len(cnpjs) >= 2 THEN Identifier(cnpjs[2], "CNPJ")
       ELSE IF Len(cnpjs) = 1 THEN Identifier(cnpjs[1], "CNPJ")
       ELSE IF cpf # << >> THEN Identifier(cpf[1], "CPF")
       ELSE Identifier(<< >>, "")

\* ExtractorIdentifier.extract
ExtractId(t) ==
    LET cnpjs == Cnpjs(t)
        cpf == Cpf(t)
    IN IF Len(cnpjs) >= 2 THEN Identifier(cnpjs[2], "CNPJ")
       ELSE IF cpf # << >> THEN Identifier(cpf[1], "CPF")
       ELSE IF Len(cnpjs) = 1 THEN Identifier(cnpjs[1], "CNPJ")
       ELSE Identifier(<< >>, "")

----------------------------------------------------------------------------
(* Page texts *)

RawCnpjA == <<"1", "1", "2", "2", "2", "3", "3", "3", "0", "0", "0", "1", "4", "4">>
RawCnpjB == <<"5", "5", "6", "6", "6", "7", "7", "7", "0", "0", "0", "1", "8", "8">>
RawCpfP == <<"1", "2", "3", "4", "5", "6", "7", "8", "9", "0", "1">>
RawCpfQ == <<"9", "8", "7", "6", "5", "4", "3", "2", "1", "0", "0">>

\* a CPF printed with blanks instead of punctuation
SpacedCpf(raw) ==
    SubSeq(raw, 1, 3) \o <<" ">> \o SubSeq(raw, 4, 6) \o <<" ">> \o SubSeq(raw, 7, 9)
        \o <<" ">> \o SubSeq(raw, 10, 11)

\* The pieces a page text is put together from.  The last one has no
\* separator after it, so that what follows it runs into it.
Pieces == << FmtCnpj(RawCnpjA) \o <<"\n">>,
             RawCnpjA \o <<" ">>,
             FmtCnpj(RawCnpjB) \o <<"\n">>,
             FmtCpf(RawCpfP) \o <<"\n">>,
             SpacedCpf(RawCpfQ) \o <<"\n">>,
             <<"n", "o", "m", "e", ":", " ">>,
             <<"1", "2", "3">> >>

RECURSIVE Concat(_)
Concat(ps) == IF ps = << >> THEN << >> ELSE Pieces[Head(ps)] \o Concat(Tail(ps))

\* every text of at most n pieces
TextsUpTo(n) ==
    { Concat(ps) : ps \in UNION { [1 .. k -> 1 .. Len(Pieces)] : k \in 0 .. n } }

NoIdent == Identifier(<< >>, "")

----------------------------------------------------------------------------
(* PDFProcessor._group_pages *)

\* the texts of the pages of the documents
PageTexts == { << >>,
               Pieces[6],
               Pieces[4],
               Pieces[5] \o Pieces[6],
               Pieces[1] \o Pieces[3],
               Pieces[3] \o Pieces[1] \o Pieces[4] }

\* every document of at most n pages
DocsUpTo(n) == UNION { [1 .. k -> PageTexts] : k \in 0 .. n }

\* f"pagina_{i + 1}_sem_identificador"
IsolatedName_ZeroBased(idx) ==
    <<"p", "a", "g", "i", "n", "a", "_">> \o DecStr(idx)
        \o <<"_", "s", "e", "m", "_", "i", "d", "e", "n", "t", "i", "f", "i", "c", "a", "d", "o", "r">>

IsolatedName(idx) ==
    <<"p", "a", "g", "i", "n", "a", "_">> \o DecStr(idx + 1)
        \o <<"_", "s", "e", "m", "_", "i", "d", "e", "n", "t", "i", "f", "i", "c",
             "a", "d", "o", "r">>

\* `last_name and last_id`
HasCarry(st) ==
    /\ st.last_name # None /\ st.last_name[1] # << >>
    /\ st.last_id # None /\ Truthy(st.last_id[1])

\* the carry that keeps the first identifier of the document
Carried_KeepFirst(st, id, idx) ==
    IF Truthy(id) /\ ~HasCarry(st)
    THEN [last_id |-> Some(id), last_name |-> Some(NomeArquivo(id.valor))]
    ELSE [last_id |-> st.last_id, last_name |-> st.last_name]

\* the carry that also takes the name of an isolated page
Carried_Isolated(st, id, idx) ==
    IF Truthy(id)
    THEN [last_id |-> Some(id), last_name |-> Some(NomeArquivo(id.valor))]
    ELSE IF HasCarry(st)
    THEN [last_id |-> st.last_id, last_name |-> st.last_name]
    ELSE [last_id |-> Some(Identifier(IsolatedName(idx), "---")),
          last_name |-> Some(IsolatedName(idx))]

\* last_id and last_name after the page idx, whose extraction gave id
Carried(st, id, idx) ==
    IF Truthy(id)
    THEN [last_id |-> Some(id), last_name |-> Some(NomeArquivo(id.valor))]
    ELSE [last_id |-> st.last_id, last_name |-> st.last_name]

\* ident after the if/elif/else: the identifier the page idx is filed under
Resolved(st, id, idx) ==
    IF Truthy(id) THEN id
    ELSE IF HasCarry(st) THEN st.last_id[1]
    ELSE Identifier(IsolatedName(idx), "---")

\* `key in groups`
HasKey(gs, key) == \E g \in 1 .. Len(gs) : gs[g].key = key

\* adding a page that replaces the pages of its group
AddPage_Replace(gs, id, idx) ==
    LET key == NomeArquivo(id.valor) IN
    IF ~HasKey(gs, key)
    THEN Append(gs, [key |-> key, identifier |-> id, indices |-> <<idx>>])
    ELSE [g \in 1 .. Len(gs) |->
            IF gs[g].key = key THEN [gs[g] EXCEPT !.indices = <<idx>>] ELSE gs[g]]

\* adding a page at the front of its group
AddPage_Front(gs, id, idx) ==
    LET key == NomeArquivo(id.valor) IN
    IF ~HasKey(gs, key)
    THEN Append(gs, [key |-> key, identifier |-> id, indices |-> <<idx>>])
    ELSE [g \in 1 .. Len(gs) |->
            IF gs[g].key = key THEN [gs[g] EXCEPT !.indices = <<idx>> \o @] ELSE gs[g]]

\* key = ident.nome_arquivo; create the group on first use; append the index.
\* The dict is a sequence of entries in insertion order, one per key.
AddPage(gs, id, idx) ==
    LET key == NomeArquivo(id.valor) IN
    IF ~HasKey(gs, key)
    THEN Append(gs, [key |-> key, identifier |-> id, indices |-> <<idx>>])
    ELSE [g \in 1 .. Len(gs) |->
            IF gs[g].key = key THEN [gs[g] EXCEPT !.indices = Append(@, idx)] ELSE gs[g]]

\* one iteration of the loop of _group_pages, on the page idx with text t
GroupStep(st, idx, t) ==
    CHOOSE next \in
        { [groups |-> AddPage(st.groups, Resolved(st, id, idx), idx),
           last_name |-> Carried(st, id, idx).last_name,
           last_id |-> Carried(st, id, idx).last_id] : id \in {ExtractId(t)} } : TRUE

\* the locals of _group_pages before the loop
GroupStart == [groups |-> << >>, last_name |-> None, last_id |-> None]

\* the locals of _group_pages after the pages 0 .. n-1 of d
\* (the locals after the page before are computed once, then handed on)
RECURSIVE GroupScan(_, _)
GroupScan(d, n) ==
    IF n = 0 THEN GroupStart
    ELSE CHOOSE st \in { GroupStep(prev, n - 1, d[n]) : prev \in {GroupScan(d, n - 1)} } :
            TRUE

\* _group_pages(doc_fitz, total): the returned dict
GroupPages(d) == GroupScan(d, Len(d)).groups

----------------------------------------------------------------------------
(* Paths and sorting *)

\* the characters of the model in code point order
CodeOrder == << "\n", " ", "\"", "*", "-", ".", "/",
                "0", "1", "2", "3", "4", "5", "6", "7", "8", "9",
                ":", "<", ">", "?", "\\", "_",
                "a", "b", "c", "d", "e", "f", "g", "h", "i", "j", "k", "l", "m",
                "n", "o", "p", "q", "r", "s", "t", "u", "v", "w", "x", "y", "z",
                "|" >>

Code(c) == CHOOSE k \in 1 .. Len(CodeOrder) : CodeOrder[k] = c

\* a < b for two strings
RECURSIVE StrLess(_, _)
StrLess(a, b) ==
    IF b = << >> THEN FALSE
    ELSE IF a = << >> THEN TRUE
    ELSE IF Head(a) # Head(b) THEN Code(Head(a)) < Code(Head(b))
    ELSE StrLess(Tail(a), Tail(b))

\* the file name of the path with the stem st
PdfName(st) == st \o <<".", "p", "d", "f">>

\* Path.stem: the file name without its last suffix; a name without a dot,
\* or whose only dot is its first or last character, is its own stem
Stem(name) ==
    LET dots == { k \in 1 .. Len(name) : name[k] = "." }
    IN IF dots = {} THEN name
       ELSE LET last == CHOOSE k \in dots : \A d \in dots : d <= k
            IN IF last = 1 \/ last = Len(name) THEN name
               ELSE SubSeq(name, 1, last - 1)

\* sorted(DIR.glob("*.pdf")): the stems of the files of one directory,
\* ordered by their paths
RECURSIVE SortedGlob(_)
SortedGlob(S) ==
    IF S = {} THEN << >>
    ELSE LET m == CHOOSE x \in S : \A y \in S \ {x} : StrLess(PdfName(x), PdfName(y))
         IN <<m>> \o SortedGlob(S \ {m})

----------------------------------------------------------------------------
(* PDFProcessor.process *)

\* the fields of the dataclass ProcessingResult that process fills in
ProcessingResult(total_pages, gs, generated_files) ==
    [total_pages |-> total_pages, groups |-> gs, generated_files |-> generated_files]

\* ProcessingResult.total_files
TotalFiles(r) == Len(r.generated_files)

\* getattr on a ProcessingResult: Some(value), or None for AttributeError
GetAttr(r, name) ==
    IF name \in DOMAIN r THEN Some(r[name])
    ELSE IF name = "total_files" THEN Some(TotalFiles(r))
    ELSE None

\* the paths taken from the identifier's value instead of the group key
WriteGroups_ByIdentifier(gs) == [g \in 1 .. Len(gs) |-> gs[g].identifier.valor]

\* _write_groups: the returned paths, one per group in the order of the dict
WriteGroups(gs) == [g \in 1 .. Len(gs) |-> gs[g].key]

\* `for idx in grupo.indices: escritor.add_page(leitor.pages[idx])`: the pages
\* of one output file, each with the index of the source page it was taken from
WritePages(grupo, pages) ==
    [k \in 1 .. Len(grupo.indices) |->
        [source |-> grupo.indices[k], text |-> pages[grupo.indices[k] + 1]]]

\* the files _write_groups leaves in the output directory, in writing order
WrittenFiles(gs, pages) ==
    [g \in 1 .. Len(gs) |->
        [path |-> WriteGroups(gs)[g], pages |-> WritePages(gs[g], pages)]]

\* the elements of a sequence
Range(s) == { s[k] : k \in 1 .. Len(s) }

\* What can go wrong with one input document: it is gone when process looks
\* for it, it cannot be opened, or one of its output files cannot be written.
Faults == {"ok", "missing", "unreadable", "writefail"}

\* process(caminho_pdf) on the document d = [pages, fault], when the write
\* of the group failAt is the one that fails: the exception raised (or None),
\* the result returned, and the output directory afterwards
Process(d, out, failAt) ==
    IF d.fault = "missing"
    THEN [raised |-> Some("FileNotFoundError"), result |-> None, out |-> out]
    ELSE IF d.fault = "unreadable"
    THEN [raised |-> Some("PdfReadError"), result |-> None, out |-> out]
    ELSE CHOOSE ret \in
           { IF d.fault = "writefail" /\ failAt <= Len(gs)
             THEN [raised |-> Some("OSError"), result |-> None,
                   out |-> out \cup Range(SubSeq(WriteGroups(gs), 1, failAt - 1))]
             ELSE [raised |-> None,
                   result |-> Some(ProcessingResult(Len(d.pages), gs, WriteGroups(gs))),
                   out |-> out \cup Range(WriteGroups(gs))]
             : gs \in {GroupPages(d.pages)} } : TRUE

----------------------------------------------------------------------------
(* One iteration of the loop of split_pdfs *)

\* resultado = processor.process(pdf);
\* arquivos_gerados.extend(resultado.arquivos_gerados)
SplitStep(st, d, out, failAt) ==
    CHOOSE next \in
        { IF r.raised # None
          THEN [raised |-> r.raised, arquivos_gerados |-> st.arquivos_gerados,
                out |-> r.out]
          ELSE IF GetAttr(r.result[1], "arquivos_gerados") = None
          THEN [raised |-> Some("AttributeError"),
                arquivos_gerados |-> st.arquivos_gerados, out |-> r.out]
          ELSE [raised |-> None,
                arquivos_gerados |->
                    st.arquivos_gerados \o GetAttr(r.result[1], "arquivos_gerados")[1],
                out |-> r.out]
          : r \in {Process(d, out, failAt)} } : TRUE

----------------------------------------------------------------------------
(* One iteration of the loop of enviar_emails *)

\* what db.get_account can return: None (no row, or a failed query, which
\* executar turns into []), a row without email, a row with an email
Accounts == { None,
              Some([nome |-> <<"n">>, email |-> << >>]),
              Some([nome |-> <<"n">>, email |-> <<"e">>]) }

\* pdf.rename(target_dir / pdf.name): raises when the file is not there
Rename(st, pdf, target) ==
    IF pdf \notin st.outputDir THEN [st EXCEPT !.raised = Some("FileNotFoundError")]
    ELSE IF target = "success"
    THEN [st EXCEPT !.outputDir = @ \ {pdf}, !.sentSuccess = @ \cup {pdf}]
    ELSE [st EXCEPT !.outputDir = @ \ {pdf}, !.sentFailure = @ \cup {pdf}]

\* the except branch: the file goes to the failure archive
OnSendError(st, pdf) ==
    LET r == Rename(st, pdf, "failure") IN
    IF r.raised # None THEN r ELSE [r EXCEPT !.errors = @ + 1]

\* the iteration that lets a send error leave the loop
DeliverOne_Reraise(st, pdf, account, sendOk) ==
    IF account = None THEN [st EXCEPT !.not_found = @ + 1]
    ELSE IF account[1].email = << >> THEN [st EXCEPT !.not_found = @ + 1]
    ELSE IF ~sendOk THEN [st EXCEPT !.raised = Some("ClientError")]
    ELSE LET r == Rename(st, pdf, "success") IN
         IF r.raised # None THEN OnSendError(st, pdf)
         ELSE [r EXCEPT !.sent_count = @ + 1]

\* the body of `for pdf in files`, after the lookup gave account and when
\* the send succeeds (sendOk) or raises
DeliverOne(st, pdf, account, sendOk) ==
    IF account = None THEN [st EXCEPT !.not_found = @ + 1]
    ELSE IF account[1].email = << >> THEN [st EXCEPT !.not_found = @ + 1]
    ELSE IF ~sendOk THEN OnSendError(st, pdf)
    ELSE LET r == Rename(st, pdf, "success") IN
         IF r.raised # None THEN OnSendError(st, pdf)
         ELSE [r EXCEPT !.sent_count = @ + 1]

----------------------------------------------------------------------------
(* The input and output directories when the program starts *)

\* the stems of the input files
InputNames == { <<"b">>, <<"a", "1", "0">>, <<"a", "2">> }

\* the pages of the input documents
InputDocs == { <<Pieces[4], Pieces[6]>>,
               <<Pieces[6], Pieces[1] \o Pieces[3], Pieces[4]>> }

\* the stems left in the output directory by earlier runs
OutputStems == { NomeArquivo(FmtCpf(RawCpfP)),
                 NomeArquivo(FmtCnpj(RawCnpjA)),
                 IsolatedName(0) }

AtMost(S, n) == { T \in SUBSET S : Cardinality(T) <= n }

InputDirs ==
    UNION { [N -> [pages : InputDocs, fault : Faults]] : N \in AtMost(InputNames, MaxDocs) }

----------------------------------------------------------------------------
(* extract applied to one page text *)

XIdle ==
    /\ text = << >>
    /\ ident = NoIdent
    /\ xpc = "idle"

GIdle ==
    /\ doc = << >>
    /\ i = 0
    /\ groups = << >>
    /\ last_name = None
    /\ last_id = None
    /\ gpc = "idle"

\* process has not written anything
PIdle ==
    /\ written = << >>
    /\ result = None

\* no formatting was asked for
FIdle ==
    /\ digits = << >>
    /\ formatted = << >>
    /\ stem = << >>
    /\ stem_digits = << >>
    /\ fpc = "idle"

\* main has not started: empty directories, nothing called
MIdle ==
    /\ args = [split |-> FALSE, send |-> FALSE]
    /\ inputDir = << >>
    /\ outputDir = {}
    /\ sentSuccess = {}
    /\ sentFailure = {}
    /\ mpc = "idle"
    /\ exc = None
    /\ pdfs = << >>
    /\ pidx = 0
    /\ arquivos_gerados = << >>
    /\ processed = << >>
    /\ splitReturn = None
    /\ sendArg = None
    /\ files = << >>
    /\ fidx = 0
    /\ sent_count = 0
    /\ errors = 0
    /\ not_found = 0
    /\ lookups = << >>

InitExtract ==
    /\ text \in TextsUpTo(MaxPieces)
    /\ ident = NoIdent
    /\ xpc = "call"
    /\ GIdle
    /\ MIdle
    /\ PIdle
    /\ FIdle

Extract ==
    /\ xpc = "call"
    /\ ident' = ExtractId(text)
    /\ xpc' = "returned"
    /\ UNCHANGED <<text, gvars, mvars, pvars, fvars>>

NextExtract == Extract

SpecExtract == InitExtract /\ [][NextExtract]_vars

----------------------------------------------------------------------------
(* _group_pages applied to one document *)

InitGroup ==
    /\ doc \in DocsUpTo(MaxPages)
    /\ i = 0
    /\ groups = << >>
    /\ last_name = None
    /\ last_id = None
    /\ gpc = "loop"
    /\ XIdle
    /\ MIdle
    /\ PIdle
    /\ FIdle

\* one iteration of `for i in range(total)`
ScanPage ==
    /\ gpc = "loop"
    /\ i < Len(doc)
    /\ \E st \in { GroupStep([groups |-> groups, last_name |-> last_name,
                               last_id |-> last_id], i, doc[i + 1]) } :
          /\ groups' = st.groups
          /\ last_name' = st.last_name
          /\ last_id' = st.last_id
    /\ i' = i + 1
    /\ UNCHANGED <<doc, gpc, xvars, mvars, pvars, fvars>>

\* `return groups`
ReturnGroups ==
    /\ gpc = "loop"
    /\ i = Len(doc)
    /\ gpc' = "returned"
    /\ UNCHANGED <<doc, i, groups, last_name, last_id, xvars, mvars, pvars, fvars>>

NextGroup == ScanPage \/ ReturnGroups

SpecGroup == InitGroup /\ [][NextGroup]_vars

----------------------------------------------------------------------------
(* process applied to one document: the scan, then _write_groups *)

\* a document whose pages all lack an identifier, long enough for page
\* numbers of two digits
LeadingDoc == [k \in 1 .. MaxLeading |-> Pieces[6]]

InitProcess ==
    /\ doc \in DocsUpTo(MaxPages) \cup {LeadingDoc}
    /\ i = 0
    /\ groups = << >>
    /\ last_name = None
    /\ last_id = None
    /\ gpc = "loop"
    /\ written = << >>
    /\ result = None
    /\ XIdle
    /\ MIdle
    /\ FIdle

\* `files = self._write_groups(groups_map, leitor)` and the return of the
\* ProcessingResult; the write of the file number failAt can raise, which
\* leaves process with the files written before it
WriteFiles ==
    /\ gpc = "returned"
    /\ \E failAt \in 0 .. Len(groups) :
          IF failAt = 0
          THEN /\ written' = WrittenFiles(groups, doc)
               /\ result' = Some(ProcessingResult(Len(doc), groups, WriteGroups(groups)))
               /\ gpc' = "done"
          ELSE /\ written' = SubSeq(WrittenFiles(groups, doc), 1, failAt - 1)
               /\ result' = None
               /\ gpc' = "raised"
    /\ UNCHANGED <<doc, i, groups, last_name, last_id, xvars, mvars, fvars>>

NextProcess == ScanPage \/ ReturnGroups \/ WriteFiles

SpecProcess == InitProcess /\ [][NextProcess]_vars

----------------------------------------------------------------------------
(* From the digits of a match to the lookup key: _fmt_cpf or _fmt_cnpj,    *)
(* nome_arquivo, the output file name and, in enviar_emails, the digits of *)
(* its stem                                                                *)

\* the digits the digit strings are made of
DigitPool == {"0", "7"}

\* the digit strings that pass `len(raw) == 11` and `len(raw) == 14`
RawCpfs == [1 .. 11 -> DigitPool]
RawCnpjs == [1 .. 14 -> DigitPool]

InitFormat ==
    /\ digits \in RawCpfs \cup RawCnpjs
    /\ formatted = << >>
    /\ stem = << >>
    /\ stem_digits = << >>
    /\ fpc = "call"
    /\ XIdle
    /\ GIdle
    /\ MIdle
    /\ PIdle

\* Identifier(valor, tipo) is written to <nome_arquivo>.pdf, and the delivery
\* loop strips the non-digits from the stem of that file
Derive(valor) ==
    /\ formatted' = valor
    /\ \E name \in { PdfName(NomeArquivo(valor)) } :
          /\ stem' = Stem(name)
          /\ stem_digits' = StripNonDigits(Stem(name))
    /\ fpc' = "returned"
    /\ UNCHANGED <<digits, xvars, gvars, mvars, pvars>>

FormatCpf ==
    /\ fpc = "call"
    /\ Len(digits) = 11
    /\ Derive(FmtCpf(digits))

FormatCnpj ==
    /\ fpc = "call"
    /\ Len(digits) = 14
    /\ Derive(FmtCnpj(digits))

NextFormat == FormatCpf \/ FormatCnpj

SpecFormat == InitFormat /\ [][NextFormat]_vars

----------------------------------------------------------------------------
(* main: split_pdfs and enviar_emails *)

Init ==
    /\ args \in [split : BOOLEAN, send : BOOLEAN]
    /\ inputDir \in InputDirs
    /\ outputDir \in AtMost(OutputStems, MaxFiles)
    /\ sentSuccess = {}
    /\ sentFailure = {}
    /\ mpc = "main"
    /\ exc = None
    /\ pdfs = << >>
    /\ pidx = 0
    /\ arquivos_gerados = << >>
    /\ processed = << >>
    /\ splitReturn = None
    /\ sendArg = None
    /\ files = << >>
    /\ fidx = 0
    /\ sent_count = 0
    /\ errors = 0
    /\ not_found = 0
    /\ lookups = << >>
    /\ XIdle
    /\ GIdle
    /\ PIdle
    /\ FIdle

\* an exception of the given type leaves the function fn and, uncaught, main
Raise(type, fn) ==
    /\ mpc' = "raised"
    /\ exc' = Some([type |-> type, in |-> fn])

\* neither --split nor --send: print_help() and sys.exit(0)
MainHelp ==
    /\ mpc = "main"
    /\ ~args.split /\ ~args.send
    /\ mpc' = "exited"
    /\ UNCHANGED <<args, dirvars, exc, splitvars, sendvars, xvars, gvars, pvars, fvars>>

\* --split: main calls split_pdfs, which lists the input directory and
\* leaves with sys.exit(0) when it is empty
CallSplit ==
    /\ mpc = "main"
    /\ args.split
    /\ pdfs' = SortedGlob(DOMAIN inputDir)
    /\ arquivos_gerados' = << >>
    /\ IF pdfs' = << >>
       THEN mpc' = "exited" /\ pidx' = pidx
       ELSE mpc' = "split_loop" /\ pidx' = 1
    /\ UNCHANGED <<args, dirvars, exc, processed, splitReturn, sendvars, xvars, gvars, pvars, fvars>>

\* One iteration of `for pdf in pdfs`; after the last one split_pdfs
\* returns arquivos_gerados to main, which goes on to enviar_emails when
\* --send is given.
SplitIteration ==
    /\ mpc = "split_loop"
    /\ pidx <= Len(pdfs)
    /\ LET pdf == pdfs[pidx]
           d == inputDir[pdf]
       IN \E failAt \in (IF d.fault = "writefail"
                         THEN 1 .. Len(GroupPages(d.pages)) ELSE {1}) :
            \E r \in { SplitStep([arquivos_gerados |-> arquivos_gerados], d,
                                  outputDir, failAt) } :
               /\ processed' = Append(processed, pdf)
               /\ outputDir' = r.out
               /\ arquivos_gerados' = r.arquivos_gerados
               /\ IF r.raised # None
                  THEN /\ Raise(r.raised[1], "split_pdfs")
                       /\ UNCHANGED <<pidx, splitReturn>>
                  ELSE IF pidx < Len(pdfs)
                  THEN /\ pidx' = pidx + 1
                       /\ UNCHANGED <<mpc, exc, splitReturn>>
                  ELSE /\ splitReturn' = Some(r.arquivos_gerados)
                       /\ mpc' = IF args.send THEN "send" ELSE "done"
                       /\ UNCHANGED <<pidx, exc>>
    /\ UNCHANGED <<args, inputDir, sentSuccess, sentFailure, pdfs, sendvars, xvars, gvars, pvars, fvars>>

\* --send: main calls enviar_emails(files), with files = None when there was
\* no --split.  Up to the loop: the glob, the early return, the three mkdir,
\* OracleDB(...) and EmailSender(...), either of which can raise.
CallSend ==
    /\ \/ mpc = "main" /\ ~args.split /\ args.send
       \/ mpc = "send"
    /\ sendArg' = Some(splitReturn)
    /\ LET fl == IF splitReturn = None THEN SortedGlob(outputDir) ELSE splitReturn[1]
       IN IF fl = << >>
          THEN /\ mpc' = "done"
               /\ UNCHANGED <<exc, files, fidx>>
          ELSE \E setup \in {"ok", "DatabaseError", "FileNotFoundError"} :
                  IF setup = "ok"
                  THEN /\ mpc' = "send_loop"
                       /\ files' = fl
                       /\ fidx' = 1
                       /\ exc' = exc
                  ELSE /\ Raise(setup, "enviar_emails")
                       /\ UNCHANGED <<files, fidx>>
    /\ UNCHANGED <<args, dirvars, splitvars, sent_count, errors, not_found, lookups,
                   xvars, gvars, pvars, fvars>>

\* one iteration of `for pdf in files`
SendIteration ==
    /\ mpc = "send_loop"
    /\ fidx <= Len(files)
    /\ LET pdf == files[fidx]
           id_number == StripNonDigits(pdf)
       IN \E account \in Accounts :
          \E sendOk \in (IF account # None /\ account[1].email # << >>
                         THEN BOOLEAN ELSE {TRUE}) :
            LET r == DeliverOne([outputDir |-> outputDir, sentSuccess |-> sentSuccess,
                                 sentFailure |-> sentFailure, sent_count |-> sent_count,
                                 errors |-> errors, not_found |-> not_found,
                                 raised |-> None], pdf, account, sendOk)
            IN /\ lookups' = Append(lookups, [file |-> pdf, registration |-> id_number])
               /\ outputDir' = r.outputDir
               /\ sentSuccess' = r.sentSuccess
               /\ sentFailure' = r.sentFailure
               /\ sent_count' = r.sent_count
               /\ errors' = r.errors
               /\ not_found' = r.not_found
               /\ IF r.raised # None
                  THEN Raise(r.raised[1], "send_loop") /\ fidx' = fidx
                  ELSE fidx' = fidx + 1 /\ UNCHANGED <<mpc, exc>>
    /\ UNCHANGED <<args, inputDir, splitvars, sendArg, files, xvars, gvars, pvars, fvars>>

\* the loop is over: the three totals are logged and enviar_emails returns
SendReturn ==
    /\ mpc = "send_loop"
    /\ fidx > Len(files)
    /\ mpc' = "done"
    /\ UNCHANGED <<args, dirvars, exc, splitvars, sendvars, xvars, gvars, pvars, fvars>>

Next == MainHelp \/ CallSplit \/ SplitIteration \/ CallSend \/ SendIteration \/ SendReturn

Spec == Init /\ [][Next]_vars

----------------------------------------------------------------------------
(* Properties of _group_pages *)

\* the identifier extracted from the page j (0-based) of the document
PageId(j) == ExtractId(doc[j + 1])

\* the pages scanned so far
Scanned == 0 .. (i - 1)

\* the places (group, position) where the page j is recorded
Places(j) ==
    { <<g, k>> \in (1 .. Len(groups)) \X (1 .. MaxPages + 1) :
        k <= Len(groups[g].indices) /\ groups[g].indices[k] = j }

\* the keys of the groups that hold the page j
KeysOf(j) == { groups[p[1]].key : p \in Places(j) }

\* the last page before j whose extraction gave an identifier
LastIdentified(j) ==
    CHOOSE a \in 0 .. (j - 1) :
        /\ Truthy(PageId(a))
        /\ \A b \in (a + 1) .. (j - 1) : ~Truthy(PageId(b))

\* no page up to j gave an identifier
Leading(j) == \A a \in 0 .. j : ~Truthy(PageId(a))

\* C1: the groups partition the page indices: every scanned page is recorded
\* in exactly one place of exactly one group, and nothing else is recorded;
\* at the return the scanned pages are 0 .. N-1.
C1_Partition ==
    /\ \A j \in Scanned : Cardinality(Places(j)) = 1
    /\ \A g \in 1 .. Len(groups) :
          \A k \in 1 .. Len(groups[g].indices) : groups[g].indices[k] \in Scanned
    /\ gpc = "returned" => i = Len(doc)

C1_Witness ==
    /\ gpc = "returned"
    /\ Len(doc) >= 3
    /\ Len(groups) >= 2
    /\ \E g \in 1 .. Len(groups) : Len(groups[g].indices) >= 2

\* C2: a page without identifier that comes after a page with one is in the
\* group of the most recently extracted identifier, and in no other group.
C2_CarryMostRecent ==
    \A j \in Scanned :
        (~Truthy(PageId(j)) /\ ~Leading(j))
            => KeysOf(j) = { NomeArquivo(PageId(LastIdentified(j)).valor) }

\* pages [A, none, B] with A # B give the groups A: [0, 1] and B: [2]
C2_Witness ==
    /\ gpc = "returned"
    /\ Len(doc) = 3
    /\ Truthy(PageId(0)) /\ ~Truthy(PageId(1)) /\ Truthy(PageId(2))
    /\ PageId(0) # PageId(2)
    /\ Len(groups) = 2
    /\ groups[1].identifier = PageId(0) /\ groups[1].indices = <<0, 1>>
    /\ groups[2].identifier = PageId(2) /\ groups[2].indices = <<2>>

\* C3: a page without identifier scanned before any identifier was found is
\* alone in a group of its own, and it leaves no carry identifier behind.
C3_LeadingIsolated ==
    /\ \A j \in Scanned :
          Leading(j) =>
              /\ \E g \in 1 .. Len(groups) : groups[g].indices = <<j>>
              /\ Cardinality(Places(j)) = 1
    /\ (\A j \in Scanned : ~Truthy(PageId(j))) => ~HasCarry([last_name |-> last_name,
                                                              last_id |-> last_id])
    /\ \A k \in 0 .. i :
          (k >= 1 => Leading(k - 1)) /\ (k < i => ~Leading(k))
              => Cardinality({ g \in 1 .. Len(groups) :
                                 /\ Len(groups[g].indices) = 1
                                 /\ groups[g].indices[1] < k }) = k

\* two leading pages without identifier, then a page with one: three groups
C3_Witness ==
    /\ gpc = "returned"
    /\ Len(doc) = 3
    /\ Leading(1) /\ Truthy(PageId(2))
    /\ Len(groups) = 3
    /\ groups[1].indices = <<0>>
    /\ groups[2].indices = <<1>>
    /\ groups[3].indices = <<2>>

\* C4: in every group the page indices are strictly increasing.
C4_IndicesIncreasing ==
    \A g \in 1 .. Len(groups) :
        \A k \in 1 .. (Len(groups[g].indices) - 1) :
            groups[g].indices[k] < groups[g].indices[k + 1]

\* pages [A, B, A] give A: [0, 2] and B: [1]
C4_Witness ==
    /\ gpc = "returned"
    /\ Len(groups) = 2
    /\ groups[1].indices = <<0, 2>>
    /\ groups[2].indices = <<1>>

----------------------------------------------------------------------------
(* Properties of extract *)

\* s without the repetitions of its elements, in order of first appearance
RECURSIVE DistinctFrom(_, _)
DistinctFrom(s, k) ==
    IF k > Len(s) THEN << >>
    ELSE (IF \E j \in 1 .. (k - 1) : s[j] = s[k] THEN << >> ELSE <<s[k]>>)
             \o DistinctFrom(s, k + 1)

DistinctInOrder(s) == DistinctFrom(s, 1)

\* the matches of the two patterns in the page text
CompanyMatches == FindIter(text, 1, CNPJ_RE)
IndividualMatches == FindIter(text, 1, CPF_RE)

\* the punctuated form of a match of the individual pattern: its eleven
\* digits in groups of 3-3-3-2
IsCanonicalCpf(v, m) ==
    /\ Len(v) = 14
    /\ v[4] = "." /\ v[8] = "." /\ v[12] = "-"
    /\ StripNonDigits(v) = StripNonDigits(m)

\* the punctuated form of a match of the company pattern: its fourteen
\* digits in groups of 2-3-3-4-2
IsCanonicalCnpj(v, m) ==
    /\ Len(v) = 18
    /\ v[3] = "." /\ v[7] = "." /\ v[11] = "/" /\ v[16] = "-"
    /\ StripNonDigits(v) = StripNonDigits(m)

\* what rules 3 to 5 give: the first individual identifier, else the only
\* company identifier, else nothing
IsIndividualRuleResult(id, companies) ==
    IF IndividualMatches # << >>
    THEN id.tipo = "CPF" /\ IsCanonicalCpf(id.valor, IndividualMatches[1])
    ELSE IF companies # << >>
    THEN id.tipo = "CNPJ" /\ IsCanonicalCnpj(id.valor, companies[1])
    ELSE id.valor = << >> /\ id.tipo = "" /\ ~Truthy(id)

\* C5: the company rule applies only with two distinct company identifiers,
\* and gives the second distinct one; when all company matches are the same
\* identifier the individual rule decides.
C5_CompanyRuleOnDistinct ==
    xpc = "returned" =>
        LET d == DistinctInOrder(Cnpjs(text)) IN
        IF Len(d) >= 2
        THEN ident = Identifier(d[2], "CNPJ")
        ELSE IsIndividualRuleResult(ident, CompanyMatches)

\* C6: with at most one company match the result is the first individual
\* identifier if there is one, else the company identifier, else empty.
C6_AtMostOneCompany ==
    (xpc = "returned" /\ Len(CompanyMatches) <= 1)
        => IsIndividualRuleResult(ident, CompanyMatches)

\* one company match and an individual match: the individual one is returned
C6_Witness ==
    /\ xpc = "returned"
    /\ Len(CompanyMatches) = 1
    /\ IndividualMatches # << >>
    /\ ident.tipo = "CPF"
    /\ ident.valor = FmtCpf(RawCpfP)

----------------------------------------------------------------------------
(* Properties of main *)

\* main is over: normally, by sys.exit(0), or by an uncaught exception
Terminated == mpc \in {"done", "exited", "raised"}

\* the files the delivery loop has gone through, in order
LookedUp == [k \in 1 .. Len(lookups) |-> lookups[k].file]

\* C7: after the loop every processed file has left the output directory
\* and is in the success or in the failure archive.
C7_FailedFilesArchived ==
    (mpc = "done" /\ files # << >>) =>
        \A f \in Range(files) :
            f \notin outputDir /\ f \in (sentSuccess \cup sentFailure)

\* C8: a delivery failure never aborts the batch: no exception leaves the
\* loop, the files are looked up once each in list order, and the three
\* counters add up to the number of files gone through.
C8_BatchNeverAborted ==
    /\ exc # None => exc[1].in # "send_loop"
    /\ mpc = "send_loop" =>
          /\ LookedUp = SubSeq(files, 1, fidx - 1)
          /\ sent_count + not_found + errors = fidx - 1
    /\ (mpc = "done" /\ files # << >>) =>
          /\ LookedUp = files
          /\ sent_count + not_found + errors = Len(files)

\* two files: the send of the first one raised, the second one was sent
C8_Witness ==
    /\ mpc = "done"
    /\ Len(files) = 2
    /\ files[1] \in sentFailure /\ errors = 1
    /\ files[2] \in sentSuccess /\ sent_count = 1
    /\ not_found = 0

\* the paths process generates for the inputs ps, in order
RECURSIVE AllGenerated(_)
AllGenerated(ps) ==
    IF ps = << >> THEN << >>
    ELSE WriteGroups(GroupPages(inputDir[Head(ps)].pages)) \o AllGenerated(Tail(ps))

\* process raises on the document d
Fails(d) ==
    \/ d.fault \in {"missing", "unreadable"}
    \/ d.fault = "writefail" /\ GroupPages(d.pages) # << >>

\* C9: with k >= 1 inputs, none of which fails in process, split_pdfs calls
\* process on every input in sorted order and returns the concatenation of
\* their generated files, and with --send enviar_emails gets that list.
C9_ManifestHandedOver ==
    (/\ Terminated
     /\ args.split
     /\ DOMAIN inputDir # {}
     /\ \A n \in DOMAIN inputDir : ~Fails(inputDir[n]))
        => /\ processed = SortedGlob(DOMAIN inputDir)
           /\ splitReturn = Some(AllGenerated(SortedGlob(DOMAIN inputDir)))
           /\ args.send => sendArg = Some(splitReturn)

\* C10: when process fails on one document, the remaining documents of the
\* run are still processed.
C10_FailureAbortsOnlyDocument ==
    (/\ Terminated
     /\ args.split
     /\ \E k \in 1 .. Len(processed) : Fails(inputDir[processed[k]]))
        => processed = SortedGlob(DOMAIN inputDir)

----------------------------------------------------------------------------
(* Properties of process *)

\* the group that holds the page j
GroupOf(j) ==
    CHOOSE g \in 1 .. Len(groups) :
        \E k \in 1 .. Len(groups[g].indices) : groups[g].indices[k] = j

\* the number a digit character stands for
DigitValue(c) == CHOOSE n \in 0 .. 9 : DigitChar(n) = c

\* the number a decimal numeral stands for
RECURSIVE NumeralValue(_)
NumeralValue(m) ==
    IF m = << >> THEN 0
    ELSE 10 * NumeralValue(SubSeq(m, 1, Len(m) - 1)) + DigitValue(m[Len(m)])

\* s is prefix, then the decimal numeral of n without leading zero, then suffix
IsNumberedName(s, prefix, suffix, n) ==
    /\ Len(s) > Len(prefix) + Len(suffix)
    /\ SubSeq(s, 1, Len(prefix)) = prefix
    /\ SubSeq(s, Len(s) - Len(suffix) + 1, Len(s)) = suffix
    /\ LET m == SubSeq(s, Len(prefix) + 1, Len(s) - Len(suffix))
       IN /\ \A k \in 1 .. Len(m) : IsDigit(m[k])
          /\ m[1] # "0"
          /\ NumeralValue(m) = n

\* the key of every unresolved page is prefix <n> suffix with n = j + 1, and
\* process writes a file of that stem which holds the page j alone
UnresolvedNamed(prefix, suffix) ==
    \A j \in Scanned :
        Leading(j) =>
            /\ IsNumberedName(groups[GroupOf(j)].key, prefix, suffix, j + 1)
            /\ groups[GroupOf(j)].indices = <<j>>
            /\ gpc = "done" =>
                  \E w \in 1 .. Len(written) :
                      /\ written[w].path = groups[GroupOf(j)].key
                      /\ written[w].pages = <<[source |-> j, text |-> doc[j + 1]]>>

\* C11 as stated: the group key and file stem of an unresolved page with
\* 0-based index i is "page_<n>_no_identifier" with n = i + 1.
C11_EnglishName ==
    UnresolvedNamed(<<"p", "a", "g", "e", "_">>,
                    <<"_", "n", "o", "_", "i", "d", "e", "n", "t", "i", "f", "i", "e", "r">>)

\* C11: the group key and file stem of an unresolved page (no identifier and
\* no carry) with 0-based index i is "pagina_<n>_sem_identificador" with
\* n = i + 1, and the file of that stem holds that page alone.
C11_IsolatedNameOneBased ==
    UnresolvedNamed(<<"p", "a", "g", "i", "n", "a", "_">>,
                    <<"_", "s", "e", "m", "_", "i", "d", "e", "n", "t", "i", "f", "i",
                      "c", "a", "d", "o", "r">>)

\* pages [none, A]: the groups pagina_1_sem_identificador: [0] and A: [1],
\* and the two files written
C11_Witness ==
    /\ gpc = "done"
    /\ Len(doc) = 2
    /\ ~Truthy(PageId(0)) /\ Truthy(PageId(1))
    /\ Len(groups) = 2
    /\ groups[1].key = <<"p", "a", "g", "i", "n", "a", "_", "1", "_", "s", "e", "m", "_",
                         "i", "d", "e", "n", "t", "i", "f", "i", "c", "a", "d", "o", "r">>
    /\ groups[1].indices = <<0>>
    /\ groups[2].key = NomeArquivo(PageId(1).valor)
    /\ groups[2].indices = <<1>>
    /\ written[1].path = groups[1].key
    /\ written[2].path = groups[2].key

\* the eleventh page of a document without identifiers
C11_TwoDigits ==
    /\ gpc = "done"
    /\ Len(doc) >= 11
    /\ Leading(10)
    /\ written[11].path = <<"p", "a", "g", "i", "n", "a", "_", "1", "1", "_", "s", "e", "m",
                            "_", "i", "d", "e", "n", "t", "i", "f", "i", "c", "a", "d", "o", "r">>

\* the key of the group each page of the document went to, in page order
PageKeys == [j \in 1 .. Len(doc) |-> groups[GroupOf(j - 1)].key]

\* the source pages of the file number g, in the order they were added
SourcesOf(g) == [k \in 1 .. Len(written[g].pages) |-> written[g].pages[k].source]

\* C13: process emits exactly one output file per group: the files are
\* written, and their paths returned, in the order in which the keys were
\* first met during the scan; the file of a group is named by its key and
\* holds the group's pages in recorded index order; the returned paths are
\* pairwise distinct, and total_files is the number of groups.
C13_OneFilePerGroup ==
    gpc = "done" =>
        /\ result # None
        /\ result[1].generated_files = DistinctInOrder(PageKeys)
        /\ Len(written) = Len(groups)
        /\ Len(result[1].generated_files) = Len(groups)
        /\ \A g \in 1 .. Len(groups) :
              /\ result[1].generated_files[g] = groups[g].key
              /\ written[g].path = groups[g].key
              /\ SourcesOf(g) = groups[g].indices
              /\ \A k \in 1 .. Len(written[g].pages) :
                    written[g].pages[k].text = doc[written[g].pages[k].source + 1]
        /\ \A g, h \in 1 .. Len(groups) :
              g # h => result[1].generated_files[g] # result[1].generated_files[h]
        /\ TotalFiles(result[1]) = Len(groups)
        /\ result[1].total_pages = Len(doc)

\* pages [A, B, A] with a company identifier A: two files, the first with
\* the pages 0 and 2, the second with the page 1
C13_Witness ==
    /\ gpc = "done"
    /\ Len(doc) = 3
    /\ PageId(0).tipo = "CNPJ"
    /\ Truthy(PageId(1)) /\ PageId(1) # PageId(0)
    /\ PageId(2) = PageId(0)
    /\ TotalFiles(result[1]) = 2
    /\ result[1].generated_files =
          <<NomeArquivo(PageId(0).valor), NomeArquivo(PageId(1).valor)>>
    /\ SourcesOf(1) = <<0, 2>>
    /\ SourcesOf(2) = <<1>>

----------------------------------------------------------------------------
(* Properties of the formatting *)

\* C12: removing the non-digits from _fmt_cpf(d), for d of 11 digits, and
\* from _fmt_cnpj(d), for d of 14 digits, gives d back; so does removing them
\* from the file-safe form (nome_arquivo) and from the stem of the output
\* file, which is the lookup key of enviar_emails.
C12_FormatRoundTrip ==
    fpc = "returned" =>
        /\ StripNonDigits(formatted) = digits
        /\ StripNonDigits(NomeArquivo(formatted)) = digits
        /\ stem = NomeArquivo(formatted)
        /\ stem_digits = digits

\* a company identifier, whose slash is replaced in the file name
C12_Witness ==
    /\ fpc = "returned"
    /\ Len(digits) = 14
    /\ \E k \in 1 .. 13 : digits[k] # digits[k + 1]
    /\ formatted[11] = "/"
    /\ stem[11] = "_"
    /\ stem_digits = digits

\* an individual identifier
C12_WitnessCpf ==
    /\ fpc = "returned"
    /\ Len(digits) = 11
    /\ formatted = <<"0", "7", "0", ".", "7", "0", "7", ".", "0", "0", "7", "-", "7", "0">>
    /\ stem_digits = digits

=============================================================================
